---- MODULE Spec2Model ----
(***************************************************************************)
(* The rotation sequencer of the quaternion demo (src/main.rs, fn main):   *)
(* the rotation list edited by the UI handlers, the playback cursor        *)
(* (animating, animate_index, animate_timer) and the rotation each frame   *)
(* of the render loop computes from them.                                  *)
(*                                                                         *)
(* Quaternions are unit Hurwitz quaternions (the 24 elements of the binary *)
(* tetrahedral group), stored with doubled components so that every        *)
(* component is an integer: <<2,0,0,0>> is 1, <<0,2,0,0>> is i and         *)
(* <<1,1,1,1>> is (1+i+j+k)/2.  The group is closed under the Hamilton     *)
(* product, so products are exact.                                         *)
(*                                                                         *)
(* animate_timer is an f32.  Its values are held as integers in units of   *)
(* 2^-29 (the unit in the last place of 1.0/60.0), and every sum and       *)
(* difference is rounded to 24 significant bits, ties to even, as the      *)
(* hardware does.                                                          *)
(*                                                                         *)
(* The slider handlers store Quaternion::from_euler_angles(..) or          *)
(* Quaternion::from_axis_angle(..) of the slider positions in the last     *)
(* entry; the model draws the stored quaternion from SliderValues.  The    *)
(* two mode buttons only choose which sliders are shown, and closing the   *)
(* window or pressing Escape only leaves the render loop; neither touches  *)
(* the state below.  Each step of Next is one handler run or one pass of   *)
(* the drawing block: the loop handles all pending events, then draws.     *)
(***************************************************************************)
EXTENDS Integers, Sequences, FiniteSets, TLC

VARIABLES
    quaternion_list,  \* main.rs:127, the rotation list
    animating,        \* main.rs:134, playback is active
    animate_index,    \* main.rs:135, the playback cursor
    animate_timer,    \* main.rs:136, progress through the segment, f32
    rotation,         \* main.rs:344-367, the rotation the last frame gave the model
    panicked,         \* the process has panicked (main.rs:351 or :223)
    ticks,            \* history: frames the animating branch has drawn since
                      \* Animate Rotations was last pressed
    last_op           \* history: the handler or drawing block that ran last

vars == <<quaternion_list, animating, animate_index, animate_timer,
          rotation, panicked, ticks, last_op>>

\* Longest rotation list the model explores (Add Rotation is unbounded in the code).
MaxLen == 3

-----------------------------------------------------------------------------
(* f32 arithmetic of the timer *)

\* 1.0 in units of 2^-29.
One == 2^29

\* The spacing of f32 values around n: 24 significant bits are kept.
RECURSIVE UlpFrom(_, _)
UlpFrom(n, u) == IF n \div u < 2^24 THEN u ELSE UlpFrom(n, 2 * u)

\* Round to nearest f32, ties to even.
FRound(n) ==
    LET u == UlpFrom(n, 1)
        q == n \div u
        r == n % u
    IN  IF 2 * r < u THEN q * u
        ELSE IF 2 * r > u THEN (q + 1) * u
        ELSE IF q % 2 = 0 THEN q * u ELSE (q + 1) * u

FAdd(a, b) == FRound(a + b)
FSub(a, b) == FRound(a - b)

\* The literal 1.0 / 60.0 as an f32: the nearest multiple of 2^-29 to 1/60.
Dt == FRound((2 * One + 60) \div 120)

\* Frames per unit of timer: the 60 of 1.0 / 60.0.
FramesPerSegment == 60

-----------------------------------------------------------------------------
(* Quaternion algebra *)

Identity == <<2, 0, 0, 0>>
QI == <<0, 2, 0, 0>>
QH == <<1, 1, 1, 1>>

\* The rotations the sliders are set to in the model.
SliderValues == {Identity, QI, QH}

\* Hamilton product a * b (components doubled, hence the division by 2).
Mul(a, b) ==
    << (a[1]*b[1] - a[2]*b[2] - a[3]*b[3] - a[4]*b[4]) \div 2,
       (a[1]*b[2] + a[2]*b[1] + a[3]*b[4] - a[4]*b[3]) \div 2,
       (a[1]*b[3] - a[2]*b[4] + a[3]*b[1] + a[4]*b[2]) \div 2,
       (a[1]*b[4] + a[2]*b[3] - a[3]*b[2] + a[4]*b[1]) \div 2 >>

Dot(a, b) == a[1]*b[1] + a[2]*b[2] + a[3]*b[3] + a[4]*b[4]
Neg(a) == << 0 - a[1], 0 - a[2], 0 - a[3], 0 - a[4] >>

\* A rotation at rest: the value slerp returns when there is nothing to
\* interpolate.
Settled(q) == [from |-> q, to |-> q, t |-> 0]

\* a.slerp(b, t): a at t = 0 and when both ends coincide; otherwise the point
\* at parameter t on the shorter arc from a (b is negated when the dot product
\* is negative).
Slerp(a, b, t) ==
    LET b2 == IF Dot(a, b) < 0 THEN Neg(b) ELSE b
    IN  IF t = 0 \/ a = b2 THEN Settled(a)
        ELSE [from |-> a, to |-> b2, t |-> t]

-----------------------------------------------------------------------------
(* The frame's rotation *)

\* Take with the bound off by one: the element under the cursor is taken too.
TakeOneMore(list, n) ==
    SubSeq(list, 1, IF n + 1 < Len(list) THEN n + 1 ELSE Len(list))

\* quaternion_list.iter().take(n): the first n elements, or all of them when
\* the list is shorter.
Take(list, n) == SubSeq(list, 1, IF n < Len(list) THEN n ELSE Len(list))

\* for q in ... { rotation *= *q; } starting from acc.
RECURSIVE MulAll(_, _)
MulAll(acc, qs) ==
    IF qs = <<>> THEN acc ELSE MulAll(Mul(acc, Head(qs)), Tail(qs))

\* The animating branch: product of the elements before the cursor, then a
\* slerp towards that product times the element under the cursor.
AnimatedRotation(list, index, timer) ==
    LET base == MulAll(Identity, Take(list, index))
    IN  Slerp(base, Mul(base, list[index + 1]), timer)

\* The idle branch stopping one entry short of the end of the list.
IdleRotationSkipsLast(list) ==
    Settled(MulAll(Identity, SubSeq(list, 1, Len(list) - 1)))

\* The idle branch: product of the whole list.
IdleRotation(list) == Settled(MulAll(Identity, list))

\* The timer left as it is when the cursor advances.
WrapNot(t) == t

\* animate_timer -= 1.0
Wrap(t) == FSub(t, One)

\* The end test with > for >=.
ExhaustedStrict(index, list) == index > Len(list)

\* The end test of a playback that stops on reaching the last entry.
ExhaustedAtLast(index, list) == index >= Len(list) - 1

\* No end test at all.
ExhaustedNever(index, list) == FALSE

\* if animate_index >= quaternion_list.len() { animating = false; }
Exhausted(index, list) == index >= Len(list)

-----------------------------------------------------------------------------
(* State machine *)

Init ==
    /\ quaternion_list = <<Identity>>
    /\ animating = FALSE
    /\ animate_index = 0
    /\ animate_timer = 0
    /\ rotation = Settled(Identity)
    /\ panicked = FALSE
    /\ ticks = 0
    /\ last_op = "init"

\* "Add Rotation" clicked.
AddRotation ==
    /\ ~panicked
    /\ Len(quaternion_list) < MaxLen
    /\ quaternion_list' = Append(quaternion_list, Identity)
    /\ last_op' = "add"
    /\ UNCHANGED <<animating, animate_index, animate_timer, rotation, panicked, ticks>>

\* Clear Rotations leaving no entry at all.
ClearedListEmpty == <<>>

\* What "Clear Rotations" leaves in the list.
ClearedList == <<Identity>>

\* "Clear Rotations" clicked.
ClearRotations ==
    /\ ~panicked
    /\ quaternion_list' = ClearedList
    /\ last_op' = "clear"
    /\ UNCHANGED <<animating, animate_index, animate_timer, rotation, panicked, ticks>>

\* A slider moved: the last entry is replaced by the rotation the sliders
\* now describe; last_mut().unwrap() panics on an empty list.
SliderEdit(q) ==
    /\ ~panicked
    /\ IF Len(quaternion_list) = 0
       THEN /\ panicked' = TRUE
            /\ last_op' = "unwrap_panic"
            /\ UNCHANGED quaternion_list
       ELSE /\ quaternion_list' =
                [quaternion_list EXCEPT ![Len(quaternion_list)] = q]
            /\ last_op' = "slider"
            /\ UNCHANGED panicked
    /\ UNCHANGED <<animating, animate_index, animate_timer, rotation, ticks>>

\* Animate Rotations without the reset of the cursor.
AnimateRotationsKeepsIndex ==
    /\ ~panicked
    /\ animating' = TRUE
    /\ animate_timer' = 0
    /\ ticks' = 0
    /\ last_op' = "animate"
    /\ UNCHANGED <<quaternion_list, animate_index, rotation, panicked>>

\* "Animate Rotations" clicked.
AnimateRotations ==
    /\ ~panicked
    /\ animating' = TRUE
    /\ animate_index' = 0
    /\ animate_timer' = 0
    /\ ticks' = 0
    /\ last_op' = "animate"
    /\ UNCHANGED <<quaternion_list, rotation, panicked>>

\* One pass of the drawing block of the render loop.
Frame ==
    /\ ~panicked
    /\ IF animating
       THEN IF animate_index >= Len(quaternion_list)
            THEN \* quaternion_list[animate_index] is out of bounds
                 /\ panicked' = TRUE
                 /\ last_op' = "index_panic"
                 /\ UNCHANGED <<quaternion_list, animating, animate_index,
                                animate_timer, rotation, ticks>>
            ELSE LET t == FAdd(animate_timer, Dt)
                 IN  /\ rotation' = AnimatedRotation(quaternion_list,
                                                     animate_index, animate_timer)
                     /\ IF t >= One
                        THEN /\ animate_index' = animate_index + 1
                             /\ animate_timer' = Wrap(t)
                             /\ animating' =
                                  ~Exhausted(animate_index + 1, quaternion_list)
                        ELSE /\ animate_timer' = t
                             /\ UNCHANGED <<animate_index, animating>>
                     /\ ticks' = ticks + 1
                     /\ last_op' = "frame"
                     /\ UNCHANGED <<quaternion_list, panicked>>
       ELSE /\ rotation' = IdleRotation(quaternion_list)
            /\ last_op' = "frame"
            /\ UNCHANGED <<quaternion_list, animating, animate_index,
                           animate_timer, panicked, ticks>>

Next ==
    \/ AddRotation
    \/ ClearRotations
    \/ \E q \in SliderValues : SliderEdit(q)
    \/ AnimateRotations
    \/ Frame

Spec == Init /\ [][Next]_vars

\* Every rotation list of at most MaxLen entries: each is reached by adding
\* entries and setting the sliders while an entry is the last one.
RotationLists == UNION { [1..n -> SliderValues] : n \in 1..MaxLen }

\* Playback over a list that is left alone: the list is any list the UI can
\* have built before the first frame is drawn.
PlayInit ==
    /\ quaternion_list \in RotationLists
    /\ animating = FALSE
    /\ animate_index = 0
    /\ animate_timer = 0
    /\ rotation = Settled(Identity)
    /\ panicked = FALSE
    /\ ticks = 0
    /\ last_op = "init"

\* "Animate Rotations" clicked while no playback is running.
StartFromIdle == ~animating /\ AnimateRotations

PlayNext ==
    \/ StartFromIdle
    \/ Frame

PlaySpec == PlayInit /\ [][PlayNext]_vars

\* The lists of one rotation repeated: the cursor and the timer never read
\* the entries, only the length of the list.
UniformLists ==
    { [i \in 1..n |-> q] : n \in 1..MaxLen, q \in SliderValues }

LiveInit ==
    /\ quaternion_list \in UniformLists
    /\ animating = FALSE
    /\ animate_index = 0
    /\ animate_timer = 0
    /\ rotation = Settled(Identity)
    /\ panicked = FALSE
    /\ ticks = 0
    /\ last_op = "init"

\* The render loop draws a frame on every pass, so Frame is never postponed
\* forever.
LiveSpec == LiveInit /\ [][PlayNext]_vars /\ WF_vars(Frame)

-----------------------------------------------------------------------------
(* Notions the properties are stated with *)

\* q1 * q2 * ... * qk starting from the identity, by induction on k.
RECURSIVE PrefixProduct(_, _)
PrefixProduct(list, k) ==
    IF k = 0 THEN Identity ELSE Mul(PrefixProduct(list, k - 1), list[k])

\* The rotation a frame drawn in the current state shows.
CurrentRotation ==
    IF animating
    THEN AnimatedRotation(quaternion_list, animate_index, animate_timer)
    ELSE IdleRotation(quaternion_list)

\* The number of ticks after which the cursor reaches segment k.
TicksToReach(k) == FramesPerSegment * k + 1

-----------------------------------------------------------------------------
(* C1 *)

\* C1: whenever playback is active the cursor is inside the list,
\* animate_index < length(quaternion_list), so the frame's access
\* quaternion_list[animate_index] is in bounds.
C1_CursorInBoundsWhilePlaying ==
    animating => animate_index < Len(quaternion_list)

-----------------------------------------------------------------------------
(* C2 *)

\* C2 as claimed: on a list of n >= 2 entries left alone during playback, the
\* current rotation after 60*k ticks (1 <= k <= n-1) is the product of the
\* first k+1 entries, and after 60*(n-1) ticks it is the product of all n
\* entries with playback over.
C2_AsClaimed ==
    LET n == Len(quaternion_list)
    IN  (n >= 2 /\ last_op = "frame") =>
          /\ \A k \in 1..(n - 1) :
               ticks = FramesPerSegment * k =>
                 CurrentRotation = Settled(PrefixProduct(quaternion_list, k + 1))
          /\ ticks = FramesPerSegment * (n - 1) =>
               /\ ~animating
               /\ CurrentRotation = Settled(PrefixProduct(quaternion_list, n))

\* C2 as amended: on a list of n >= 1 entries left alone during playback,
\* the cursor is at segment k exactly from tick 60*k+1 on (the f32 sum of
\* sixty 1.0/60.0 is below 1.0); when it reaches k < n playback is still
\* active and the current rotation is on the arc that starts at the product
\* of the first k entries and ends at the product of the first k+1, less
\* than one step from its start; playback is over when the cursor reaches n,
\* after 60*n+1 ticks, and the current rotation is then the product of all n.
C2_SegmentBoundaries ==
    LET n == Len(quaternion_list)
        list == quaternion_list
    IN  /\ animating =>
             animate_index = (IF ticks = 0 THEN 0
                              ELSE (ticks - 1) \div FramesPerSegment)
        /\ \A k \in 1..n :
             (last_op = "frame" /\ ticks = TicksToReach(k)) =>
               /\ animate_index = k
               /\ animate_timer < Dt
               /\ animating = (k < n)
               /\ k < n =>
                    CurrentRotation =
                      Slerp(PrefixProduct(list, k),
                            PrefixProduct(list, k + 1), animate_timer)
               /\ k = n =>
                    CurrentRotation = Settled(PrefixProduct(list, n))

\* Two segments of a three-entry list of non-commuting rotations played.
C2_Witness ==
    /\ quaternion_list = <<QI, QH, QI>>
    /\ last_op = "frame"
    /\ ticks = TicksToReach(2)
    /\ animating
    /\ animate_index = 2

-----------------------------------------------------------------------------
(* C3 *)

CursorWithinList ==
    /\ animate_index <= Len(quaternion_list)
    /\ animating => animate_index < Len(quaternion_list)

-----------------------------------------------------------------------------
(* C4 *)

\* C4: a frame drawn while playback is active shows
\* slerp(base, base * list[index], elapsed), base being the product of the
\* entries before the cursor starting from the identity; the entries after
\* the cursor do not influence it.
C4_AnimatedFrame ==
    [][ (animating /\ last_op' = "frame") =>
          LET base == PrefixProduct(quaternion_list, animate_index)
              upto == SubSeq(quaternion_list, 1, animate_index + 1)
          IN  /\ rotation' =
                   Slerp(base,
                         Mul(base, quaternion_list[animate_index + 1]),
                         animate_timer)
              /\ \A q \in SliderValues :
                   AnimatedRotation(Append(upto, q), animate_index,
                                    animate_timer) = rotation' ]_vars

\* A frame in the middle of the second segment, with entries after the cursor.
C4_Witness ==
    /\ animating
    /\ last_op = "frame"
    /\ animate_index = 1
    /\ quaternion_list = <<QH, QI, QH>>
    /\ rotation.from = QH
    /\ rotation.to = Mul(QH, QI)
    /\ rotation.t > One \div 2

-----------------------------------------------------------------------------
(* C5 *)

\* C5: a frame drawn while playback is not active shows the product of all
\* entries in list order, q1 * q2 * ... * qn starting from the identity.
C5_IdleFrame ==
    /\ [](~animating =>
            IdleRotation(quaternion_list) =
              Settled(PrefixProduct(quaternion_list, Len(quaternion_list))))
    /\ [][ (~animating /\ last_op' = "frame") =>
             rotation' =
               Settled(PrefixProduct(quaternion_list, Len(quaternion_list))) ]_vars

\* An idle frame of three non-commuting rotations, no playback ever started.
C5_Witness ==
    /\ ~animating
    /\ last_op = "frame"
    /\ ticks = 0
    /\ animate_index = 0
    /\ quaternion_list = <<QI, QH, QI>>
    /\ rotation = Settled(Mul(Mul(QI, QH), QI))

-----------------------------------------------------------------------------
(* C6 *)

\* C6: the rotation list is never empty: it starts as [identity], Add
\* Rotation appends one entry, Clear Rotations replaces it by [identity],
\* a slider edit replaces only the last entry; last_mut().unwrap() never
\* fails.
C6_ListNeverEmpty ==
    /\ quaternion_list = <<Identity>>
    /\ [](Len(quaternion_list) >= 1)
    /\ [](last_op # "unwrap_panic")
    /\ [][ last_op' = "add" =>
             /\ Len(quaternion_list') = Len(quaternion_list) + 1
             /\ SubSeq(quaternion_list', 1, Len(quaternion_list)) = quaternion_list ]_vars
    /\ [][ last_op' = "clear" => quaternion_list' = <<Identity>> ]_vars
    /\ [][ last_op' = "slider" =>
             /\ Len(quaternion_list') = Len(quaternion_list)
             /\ \A i \in 1..(Len(quaternion_list) - 1) :
                  quaternion_list'[i] = quaternion_list[i] ]_vars

\* The list right after Clear Rotations, pressed on a longer list during a
\* playback.
C6_Witness ==
    /\ last_op = "clear"
    /\ quaternion_list = <<Identity>>
    /\ animating
    /\ animate_index = 2

-----------------------------------------------------------------------------
(* C7 *)

\* C7: Animate Rotations can be pressed in every state of the running
\* program, idle or playing, and leaves index = 0, elapsed = 0 and
\* active = true, with the rotation list unchanged.
C7_StartResets ==
    /\ [](~panicked => ENABLED AnimateRotations)
    /\ [][ last_op' = "animate" =>
             /\ animating'
             /\ animate_index' = 0
             /\ animate_timer' = 0
             /\ quaternion_list' = quaternion_list ]_vars

\* Animate Rotations pressed during a playback: the last frame drawn was in
\* the first half of the second segment.
C7_Witness ==
    /\ last_op = "animate"
    /\ animating
    /\ animate_index = 0
    /\ animate_timer = 0
    /\ rotation.from = QI
    /\ rotation.t > 0
    /\ rotation.t < One \div 2

-----------------------------------------------------------------------------
(* C8 *)

\* C8: on a list left alone, with Animate Rotations not pressed again, a
\* playback that has started ends after finitely many frames (at most
\* 60*n+1 of them), and playback becomes active again only by Animate
\* Rotations.
C8_PlaybackEnds ==
    /\ animating ~> ~animating
    /\ [](animating => ticks < TicksToReach(Len(quaternion_list)))
    /\ [][ (~animating /\ animating') => last_op' = "animate" ]_vars

\* A playback of three entries that has ended.
C8_Witness ==
    /\ ~animating
    /\ last_op = "frame"
    /\ Len(quaternion_list) = 3
    /\ animate_index = 3
    /\ rotation.t > 0

-----------------------------------------------------------------------------
(* C10 *)

\* C10: a tick taken while playing either keeps the cursor and adds dt to
\* the timer (when the sum is below 1) or moves the cursor on by exactly one
\* and leaves the sum minus 1 in the timer (when the sum is 1 or more), the
\* sums and differences being those of f32; so 0 <= elapsed < 1 in every
\* state, the cursor changes only by +1 or by the reset of Animate
\* Rotations, and playback ends only on a tick that moves the cursor from
\* inside the list to past its last entry.
C10_TickStep ==
    /\ [](0 <= animate_timer /\ animate_timer < One)
    /\ [][ (animating /\ last_op' = "frame") =>
             LET sum == FAdd(animate_timer, Dt)
             IN  IF sum < One
                 THEN /\ animate_index' = animate_index
                      /\ animate_timer' = sum
                      /\ animating'
                 ELSE /\ animate_index' = animate_index + 1
                      /\ animate_timer' = FSub(sum, One) ]_vars
    /\ [][ animate_index' # animate_index =>
             \/ animate_index' = animate_index + 1
             \/ last_op' = "animate" /\ animate_index' = 0 ]_vars
    /\ [][ (animating /\ ~animating') =>
             /\ last_op' = "frame"
             /\ animate_index < Len(quaternion_list)
             /\ animate_index' = animate_index + 1
             /\ animate_index' >= Len(quaternion_list) ]_vars

\* The state right after the tick that moved the cursor to the second
\* segment: the timer holds what was left over.
C10_Witness ==
    /\ animating
    /\ last_op = "frame"
    /\ animate_index = 1
    /\ ticks = TicksToReach(1)
    /\ animate_timer > 0
    /\ animate_timer < Dt

====
